---- MODULE Spec2Model ----
(***************************************************************************)
(* A model of the scheduling core of newforms' lib/util.js:                *)
(*   debounce(func, wait, immediate)  with .cancel() and .trigger()        *)
(*   cancellable(func)                with .cancel()                       *)
(*   validateAll(form, formsAndFormsets) on top of formData(form)          *)
(* Each component has its own specification over the shared variables; the *)
(* variables of the other components keep their initial values.            *)
(***************************************************************************)
EXTENDS Integers, Sequences, FiniteSets, TLC

VARIABLES
  \* ---- debounce: the closure variables of util.js:341-342
  wait, immediate, timeout, args, context, timestamp, result,
  \* ---- the event loop the debounced function runs in
  now,          \* the clock read by new Date()
  timers,       \* the timers armed with setTimeout and not yet run or cleared
  nextTimerId,  \* the id the next setTimeout returns
  returned,     \* what the last call of debounced / trigger returned
  log,          \* every call of debounced, cancel, trigger and of func, in order
  \* ---- cancellable: one entry per wrapper made by cancellable(func)
  wrappers,     \* [cancelled, hasOnCancel]: the closure's flag, and whether func has a hook
  clog,         \* every call of a wrapper, of cancel, of func and of func.onCancel, in order
  \* ---- validateAll: the <form>'s widgets, and the locals of one pass
  elements,     \* form.elements: [name, type, value, checked] of each widget
  pc,           \* "idle", "loop" (util.js:424-428), "returned" or "threw"
  form,         \* the form local: "dom" or "null" (a component is unwrapped)
  nTargets,     \* formsAndFormsets.length
  data, iTarget, isValid,
  retval,       \* what the pass returned: "true", "false", or "none"
  thrown,       \* the error the pass threw: "formData", "target", or "none"
  setCalls,     \* the setFormData calls of the pass, in order
  snapElements, \* the widgets as they were when the pass called formData
  \* ---- normaliseValidation: one call
  validation,   \* the argument
  normalised,   \* what the call returned or threw, once made
  nvPc,         \* "ready" before the call, "done" after it
  \* ---- normaliseValidation: the objects it reads and makes, by reference
  heap,         \* the Arrays and policy objects made so far; an address is an index
  callerConfig, \* the caller's config; its 'on' Array is at address callerConfig.on
  callerList,   \* the items the caller put in the 'on' Array
  policies,     \* the address of the policy each call returned, in order
  expected,     \* each policy as it was returned, with the caller's own changes to it
  nChanges      \* how many changes the caller has made to returned policies

debVars == <<wait, immediate, timeout, args, context, timestamp, result,
             now, timers, nextTimerId, returned, log>>

canVars == <<wrappers, clog>>

valVars == <<elements, pc, form, nTargets, data, iTarget, isValid, retval,
             thrown, setCalls, snapElements>>

nvVars == <<validation, normalised, nvPc>>

heapVars == <<heap, callerConfig, callerList, policies, expected, nChanges>>

vars == <<debVars, canVars, valVars, nvVars, heapVars>>

(***************************************************************************)
(* Bounds of the model.                                                    *)
(***************************************************************************)
MaxTime == 5      \* the clock stops here
MaxWait == 2      \* wait is drawn from 1..MaxWait
MaxOps == 3       \* calls of debounced, cancel and trigger in one behaviour
NumArgs == 2      \* distinct argument values a caller passes
MaxWrappers == 2  \* wrappers made by cancellable in one behaviour
MaxCOps == 3      \* calls of wrappers and of their cancel in one behaviour
MaxTargets == 3   \* longest list of forms and formsets given to validateAll
MaxTokens == 2    \* event names in one validation config
MaxCalls == 2     \* calls of normaliseValidation with one config
MaxChanges == 2   \* changes a caller makes to the policies returned

ArgValues == 1..NumArgs
Contexts == {1}

\* undefined / null: the falsy value the closure variables start with
Undefined == 0

(***************************************************************************)
(* func, the wrapped function: it is observed through the log and returns  *)
(* a value that depends on its arguments.                                  *)
(***************************************************************************)
FuncResult(a) == 100 + a

Event(kind, a, c, by, pending) ==
  [kind |-> kind, args |-> a, ctx |-> c, at |-> now, by |-> by, pending |-> pending]

FuncEvent(a, c, by) == Event("func", a, c, by, FALSE)

NumOps == Cardinality({i \in 1..Len(log) : log[i].kind # "func"})

(***************************************************************************)
(* setTimeout / clearTimeout of the host.                                  *)
(***************************************************************************)
SetTimeout(ts, id, delay) == ts \cup {[id |-> id, due |-> now + delay]}

ClearTimeoutNothing(ts, id) == ts

ClearTimeout(ts, id) == {t \in ts : t.id # id}

(***************************************************************************)
(* later (util.js:347-355): the timer callback.                            *)
(***************************************************************************)
RearmNever(last, w) == FALSE

\* util.js:349  if (last < wait)
Rearm(last, w) == last < w

TimeoutAfterFireStale(id) == id

\* util.js:352  timeout = null
TimeoutAfterFire(id) == Undefined

Later(t) ==
  LET last == now - timestamp IN
  /\ t \in timers
  /\ t.due <= now
  /\ IF Rearm(last, wait)
       THEN /\ timers' = SetTimeout(timers \ {t}, nextTimerId, wait - last)
            /\ timeout' = nextTimerId
            /\ nextTimerId' = nextTimerId + 1
            /\ UNCHANGED <<result, log>>
       ELSE /\ timers' = timers \ {t}
            /\ timeout' = TimeoutAfterFire(timeout)
            /\ UNCHANGED nextTimerId
            /\ IF ~immediate
                 THEN /\ result' = FuncResult(args)
                      /\ log' = Append(log, FuncEvent(args, context, "timer"))
                 ELSE UNCHANGED <<result, log>>
  /\ UNCHANGED <<wait, immediate, args, context, timestamp, now, returned>>

(***************************************************************************)
(* debounced (util.js:343-362).                                            *)
(***************************************************************************)
CallNowWhenever(imm, t) == imm

\* util.js:356  var callNow = immediate && !timeout
CallNow(imm, t) == imm /\ t = Undefined

TimeoutUnsetAlways(t) == TRUE

\* util.js:357  if (!timeout)
TimeoutUnset(t) == t = Undefined

Debounced(c, a) ==
  LET callNow == CallNow(immediate, timeout)
      called == Append(log, Event("call", a, c, "caller", timers # {}))
  IN
  /\ NumOps < MaxOps
  /\ context' = c
  /\ args' = a
  /\ timestamp' = now
  /\ IF TimeoutUnset(timeout)
       THEN /\ timers' = SetTimeout(timers, nextTimerId, wait)
            /\ timeout' = nextTimerId
            /\ nextTimerId' = nextTimerId + 1
       ELSE UNCHANGED <<timers, timeout, nextTimerId>>
  /\ IF callNow
       THEN /\ result' = FuncResult(a)
            /\ log' = Append(called, FuncEvent(a, c, "call"))
       ELSE /\ UNCHANGED result
            /\ log' = called
  /\ returned' = result'
  /\ UNCHANGED <<wait, immediate, now>>

(***************************************************************************)
(* debounced.cancel (util.js:365-369).                                     *)
(***************************************************************************)
CancelTimers ==
  IF timeout # Undefined THEN ClearTimeout(timers, timeout) ELSE timers

Cancel ==
  /\ NumOps < MaxOps
  /\ timers' = CancelTimers
  /\ log' = Append(log, Event("cancel", Undefined, Undefined, "caller", timers # {}))
  /\ returned' = Undefined
  /\ UNCHANGED <<wait, immediate, timeout, args, context, timestamp, result,
                 now, nextTimerId>>

(***************************************************************************)
(* debounced.trigger (util.js:372-375).                                    *)
(***************************************************************************)
FirstCallArgs ==
  IF \E i \in 1..Len(log) : log[i].kind = "call"
    THEN log[CHOOSE i \in 1..Len(log) :
               /\ log[i].kind = "call"
               /\ \A k \in 1..(i - 1) : log[k].kind # "call"].args
    ELSE Undefined

TriggerArgsStale == FirstCallArgs

\* util.js:374  func.apply(context, args): the closure's args
TriggerArgs == args

Trigger ==
  /\ NumOps < MaxOps
  /\ timers' = CancelTimers
  /\ log' = Append(Append(log, Event("trigger", Undefined, Undefined, "caller", timers # {})),
                   FuncEvent(TriggerArgs, context, "trigger"))
  /\ returned' = FuncResult(TriggerArgs)
  /\ UNCHANGED <<wait, immediate, timeout, args, context, timestamp, result,
                 now, nextTimerId>>

(***************************************************************************)
(* The event loop: a timer callback runs when its delay has elapsed, so    *)
(* the clock does not move past a timer that is due.                       *)
(***************************************************************************)
Tick ==
  /\ now < MaxTime
  /\ \A t \in timers : now < t.due
  /\ now' = now + 1
  /\ UNCHANGED <<wait, immediate, timeout, args, context, timestamp, result,
                 timers, nextTimerId, returned, log>>

DebounceFresh(w, imm) ==
  /\ wait = w
  /\ immediate = imm
  /\ timeout = Undefined
  /\ args = Undefined
  /\ context = Undefined
  /\ timestamp = Undefined
  /\ result = Undefined
  /\ now = 0
  /\ timers = {}
  /\ nextTimerId = 1
  /\ returned = Undefined
  /\ log = <<>>

CallDebounced == \E c \in Contexts, a \in ArgValues : Debounced(c, a)

TimerFires == \E t \in timers : Later(t)

(***************************************************************************)
(* cancellable (util.js:389-406).  A wrapper is named by its position in   *)
(* wrappers; func may return or throw, and may or may not have onCancel.   *)
(***************************************************************************)
CEvent(kind, w, a, raised) ==
  [kind |-> kind, w |-> w, args |-> a, raised |-> raised, latest |-> Len(wrappers)]

NumCOps == Cardinality({i \in 1..Len(clog) : clog[i].kind \in {"call", "cancel"}})

\* the functions wrapped: with or without an onCancel hook, returning or throwing
Funcs == [hasOnCancel : BOOLEAN, throws : BOOLEAN]

\* util.js:390  var cancelled = false
Cancellable(func) ==
  [cancelled |-> FALSE, hasOnCancel |-> func.hasOnCancel, throws |-> func.throws]

ForwardsAlways(cancelled) == TRUE

\* util.js:393  if (!cancelled)
Forwards(cancelled) == ~cancelled

\* cancellabled (util.js:392-396)
Cancellabled(w, a) ==
  /\ NumCOps < MaxCOps
  /\ IF Forwards(wrappers[w].cancelled)
       THEN clog' = Append(Append(clog, CEvent("call", w, a, wrappers[w].throws)),
                           CEvent("func", w, a, wrappers[w].throws))
       ELSE clog' = Append(clog, CEvent("call", w, a, FALSE))
  /\ UNCHANGED wrappers

CancelledAfterCancelKept(cancelled) == cancelled

\* util.js:399  cancelled = true
CancelledAfterCancel(cancelled) == TRUE

\* the wrapper's state and the calls made by cancellabled.cancel (util.js:398-403)
CancelledWrappers(w) ==
  [wrappers EXCEPT ![w].cancelled = CancelledAfterCancel(wrappers[w].cancelled)]

CancelCalls(w) ==
  IF wrappers[w].hasOnCancel
    THEN <<CEvent("cancel", w, Undefined, FALSE), CEvent("onCancel", w, Undefined, FALSE)>>
    ELSE <<CEvent("cancel", w, Undefined, FALSE)>>

CancellabledCancel(w) ==
  /\ NumCOps < MaxCOps
  /\ wrappers' = CancelledWrappers(w)
  /\ clog' = clog \o CancelCalls(w)

\* no wrapper made yet
CancellableInit ==
  /\ wrappers = <<>>
  /\ clog = <<>>

\* wrappers made by cancellable(func), one for each of some functions: the
\* closures are independent, so they are all made before the first call
WrappersInit ==
  /\ \E n \in 1..MaxWrappers : \E fs \in [1..n -> Funcs] :
       wrappers = [w \in 1..n |-> Cancellable(fs[w])]
  /\ clog = <<>>

CallWrapper == \E w \in 1..Len(wrappers), a \in ArgValues : Cancellabled(w, a)

CancelWrapper == \E w \in 1..Len(wrappers) : CancellabledCancel(w)

(***************************************************************************)
(* The use the wrapper is made for (util.js:385-387): each new attempt     *)
(* at an asynchronous task cancels the wrapper of the attempt before it    *)
(* and wraps its own callback; the attempts complete in any order.         *)
(***************************************************************************)
StartAttempt ==
  \E func \in Funcs :
    /\ Len(wrappers) < MaxWrappers
    /\ IF wrappers = <<>>
         THEN /\ wrappers' = <<Cancellable(func)>>
              /\ UNCHANGED clog
         ELSE /\ wrappers' = Append(CancelledWrappers(Len(wrappers)), Cancellable(func))
              /\ clog' = clog \o CancelCalls(Len(wrappers))

AttemptCompletes == \E w \in 1..Len(wrappers), a \in ArgValues : Cancellabled(w, a)

(***************************************************************************)
(* formData (util.js:206-235) over getFormElementValue (util.js:294-316).  *)
(* The widgets are text inputs, checkboxes and submit buttons.  A datum is  *)
(* absent, one string, or an Array of strings.                             *)
(***************************************************************************)
Names == {"a", "b"}

\* util.js:281-283
TextInputTypes ==
  {"hidden", "password", "text", "email", "url", "number", "file", "textarea"}

\* util.js:288
CheckedInputTypes == {"checkbox", "radio"}

\* the value as a sequence of at most one string: <<>> is null
GetFormElementValue(element) ==
  IF \/ element.type \in TextInputTypes
     \/ element.type \in CheckedInputTypes /\ element.checked
    THEN <<element.value>>
    ELSE <<>>

Absent == [has |-> FALSE, isArray |-> FALSE, vals |-> <<>>]

NoData == [n \in Names |-> Absent]

\* util.js:219-231: add the value obtained to the data object
AddValue(d, name, value) ==
  IF value = <<>>
    THEN d
    ELSE IF d[name].has
      THEN [d EXCEPT ![name] = [has |-> TRUE, isArray |-> TRUE, vals |-> d[name].vals \o value]]
      ELSE [d EXCEPT ![name] = [has |-> TRUE, isArray |-> FALSE, vals |-> value]]

RECURSIVE FormDataFrom(_, _, _)
FormDataFrom(els, k, d) ==
  IF k > Len(els)
    THEN d
    ELSE FormDataFrom(els, k + 1, AddValue(d, els[k].name, GetFormElementValue(els[k])))

FormData(els) == FormDataFrom(els, 1, NoData)

(***************************************************************************)
(* validateAll (util.js:418-430).  A target's setFormData is the caller's: *)
(* it returns any value or throws, and it may change a widget.             *)
(***************************************************************************)
TargetReturns == {"true", "one", "false", "zero"}

Truthy(v) == v \in {"true", "one"}

OtherValue(v) == IF v = "x" THEN "y" ELSE "x"

\* a change of widget e: its checked flag if it has one, else its value
Changed(els, e) ==
  IF e = 0
    THEN els
    ELSE IF els[e].type \in CheckedInputTypes
      THEN [els EXCEPT ![e].checked = ~els[e].checked]
      ELSE [els EXCEPT ![e].value = OtherValue(els[e].value)]

FormMissingNever(f) == FALSE

\* util.js:207  if (!form)
FormMissing(f) == f = "null"

InitialIsValidFalse == FALSE

\* util.js:423  var isValid = true
InitialIsValid == TRUE

\* util.js:419-423: unwrap a component, take the snapshot.  validateAll keeps
\* nothing between calls, so a behaviour holds one pass, begun in any state
\* of the widgets.
ValidateAllBegin(f, n) ==
  /\ pc = "idle"
  /\ form' = (IF f = "component" THEN "dom" ELSE f)
  /\ nTargets' = n
  /\ setCalls' = <<>>
  /\ retval' = "none"
  /\ IF FormMissing(f)
       THEN /\ pc' = "threw"
            /\ thrown' = "formData"
            /\ UNCHANGED <<data, iTarget, isValid, snapElements>>
       ELSE /\ pc' = "loop"
            /\ thrown' = "none"
            /\ data' = FormData(elements)
            /\ snapElements' = elements
            /\ isValid' = InitialIsValid
            /\ iTarget' = 1
  /\ UNCHANGED elements

LoopStopsAtFailure(k, n, valid) == k <= n /\ valid

\* util.js:424  i < l
LoopContinues(k, n, valid) == k <= n

TargetDataReadAgain(d, els) == FormData(els)

\* util.js:425  setFormData(data)
TargetData(d, els) == d

PcAfterThrowSwallowed == "loop"

\* util.js:425  an exception of setFormData is not caught: it leaves validateAll
PcAfterThrow == "threw"

\* util.js:425-427: one target's setFormData; it returns ret or throws, and
\* changes widget e (none when e = 0)
ValidateAllTarget(ret, throws, e) ==
  /\ pc = "loop"
  /\ LoopContinues(iTarget, nTargets, isValid)
  /\ setCalls' = Append(setCalls, [target |-> iTarget, data |-> TargetData(data, elements),
                               live |-> FormData(elements),
                               ret |-> IF throws THEN "throws" ELSE ret])
  /\ elements' = Changed(elements, e)
  /\ IF throws
       THEN /\ pc' = PcAfterThrow
            /\ thrown' = "target"
            /\ UNCHANGED <<iTarget, isValid>>
       ELSE /\ isValid' = IF ~Truthy(ret) THEN FALSE ELSE isValid
            /\ iTarget' = iTarget + 1
            /\ UNCHANGED <<pc, thrown>>
  /\ UNCHANGED <<form, nTargets, data, retval, snapElements>>

\* util.js:429  return isValid
ValidateAllReturn ==
  /\ pc = "loop"
  /\ ~LoopContinues(iTarget, nTargets, isValid)
  /\ pc' = "returned"
  /\ retval' = IF isValid THEN "true" ELSE "false"
  /\ UNCHANGED <<elements, form, nTargets, data, iTarget, isValid, thrown, setCalls, snapElements>>

\* before the pass the user changes a widget
WidgetChange ==
  \E e \in 1..Len(elements) :
    /\ pc = "idle"
    /\ elements' = Changed(elements, e)
    /\ UNCHANGED <<pc, form, nTargets, data, iTarget, isValid, retval, thrown, setCalls, snapElements>>

ValidateIdle(els) ==
  /\ elements = els
  /\ pc = "idle"
  /\ form = "null"
  /\ nTargets = 0
  /\ data = NoData
  /\ iTarget = 1
  /\ isValid = TRUE
  /\ retval = "none"
  /\ thrown = "none"
  /\ setCalls = <<>>
  /\ snapElements = els

Widget(name, type) == [name |-> name, type |-> type, value |-> "x", checked |-> FALSE]

\* the forms tried: one widget, two of one name, a checkbox, a button
FormShapes ==
  { <<Widget("a", "text")>>,
    <<Widget("a", "text"), Widget("a", "text")>>,
    <<Widget("a", "checkbox"), Widget("b", "text")>>,
    <<Widget("a", "text"), Widget("b", "submit"), Widget("b", "checkbox")>> }

CallValidateAll ==
  \E f \in {"dom", "component", "null"}, n \in 0..MaxTargets : ValidateAllBegin(f, n)

TargetRuns ==
  \E ret \in TargetReturns, throws \in BOOLEAN, e \in 0..Len(elements) :
    /\ throws => ret = "zero"
    /\ ValidateAllTarget(ret, throws, e)

(***************************************************************************)
(* Strings are sequences of characters, so that the string operations of   *)
(* normaliseValidation are computed and not assumed.                       *)
(***************************************************************************)
LowerCase == <<"a", "b", "c", "d", "e", "f", "g", "h", "i", "j", "k", "l", "m",
               "n", "o", "p", "q", "r", "s", "t", "u", "v", "w", "x", "y", "z">>

UpperCase == <<"A", "B", "C", "D", "E", "F", "G", "H", "I", "J", "K", "L", "M",
               "N", "O", "P", "Q", "R", "S", "T", "U", "V", "W", "X", "Y", "Z">>

\* String.prototype.toUpperCase on one character
ToUpperCase(ch) ==
  IF \E k \in 1..Len(LowerCase) : LowerCase[k] = ch
    THEN UpperCase[CHOOSE k \in 1..Len(LowerCase) : LowerCase[k] = ch]
    ELSE ch

\* str.substr(1)
Substr1(str) == IF Len(str) <= 1 THEN <<>> ELSE SubSeq(str, 2, Len(str))

\* strip (util.js:321-326): leading and trailing spaces removed
RECURSIVE StripLeft(_)
StripLeft(str) ==
  IF str # <<>> /\ Head(str) = " " THEN StripLeft(Tail(str)) ELSE str

RECURSIVE StripRight(_)
StripRight(str) ==
  IF str # <<>> /\ str[Len(str)] = " "
    THEN StripRight(SubSeq(str, 1, Len(str) - 1))
    ELSE str

Strip(str) == StripRight(StripLeft(str))

\* str.split(/ +/g): cur is the piece being read, acc the pieces read
RECURSIVE SplitFrom(_, _, _, _)
SplitFrom(str, k, cur, acc) ==
  IF k > Len(str)
    THEN Append(acc, cur)
    ELSE IF str[k] = " "
      THEN IF k > 1 /\ str[k - 1] = " "
             THEN SplitFrom(str, k + 1, cur, acc)
             ELSE SplitFrom(str, k + 1, <<>>, Append(acc, cur))
      ELSE SplitFrom(str, k + 1, Append(cur, str[k]), acc)

SplitSpaces(str) == SplitFrom(str, 1, <<>>, <<>>)

\* the strings the code names
StrOn == <<"o", "n">>
StrOnChange == <<"o", "n", "C", "h", "a", "n", "g", "e">>
StrOnBlur == <<"o", "n", "B", "l", "u", "r">>
StrManual == <<"m", "a", "n", "u", "a", "l">>
StrAuto == <<"a", "u", "t", "o">>

(***************************************************************************)
(* normaliseValidationEvents (util.js:116-126).                            *)
(***************************************************************************)
\* util.js:118  event.indexOf('on') === 0
StartsWithOn(event) == Len(event) >= 2 /\ SubSeq(event, 1, 2) = StrOn

\* util.js:118-119
EventName(event) ==
  IF StartsWithOn(event)
    THEN event
    ELSE IF event = <<>>
      THEN StrOn
      ELSE StrOn \o <<ToUpperCase(event[1])>> \o Substr1(event)

\* Array.prototype.indexOf, 1-based; 0 when absent
IndexOf(list, x) ==
  IF \E k \in 1..Len(list) : list[k] = x
    THEN CHOOSE k \in 1..Len(list) : list[k] = x /\ \A m \in 1..(k - 1) : list[m] # x
    ELSE 0

\* events.splice(k, 1)
Splice1(list, k) == SubSeq(list, 1, k - 1) \o SubSeq(list, k + 1, Len(list))

\* unset: the value of a property that was never given
Unset == 0 - 1

Policy(events, onChange, onChangeDelay) ==
  [kind |-> "policy", events |-> events, onChange |-> onChange,
   onChangeDelay |-> onChangeDelay, value |-> "none"]

\* the argument handed back as it came
PassedThrough(v) ==
  [kind |-> "passthrough", events |-> <<>>, onChange |-> FALSE,
   onChangeDelay |-> Unset, value |-> v.kind]

\* an Error thrown: which one, and the value its message names
Thrown(message, v) ==
  [kind |-> message, events |-> <<>>, onChange |-> FALSE,
   onChangeDelay |-> Unset, value |-> v]

NormaliseValidationEvents(events) ==
  LET names == [k \in 1..Len(events) |-> EventName(events[k])]
      onChangeIndex == IndexOf(names, StrOnChange)
  IN Policy(IF onChangeIndex # 0 THEN Splice1(names, onChangeIndex) ELSE names,
            onChangeIndex # 0, Unset)

\* normaliseValidationString (util.js:131-133)
NormaliseValidationString(events) ==
  NormaliseValidationEvents(SplitSpaces(Strip(events)))

(***************************************************************************)
(* normaliseValidation (util.js:138-163).  A config is                     *)
(*   [kind, str, list, on, hasOnChangeDelay, onChangeDelay, delay]:        *)
(* kind is the type of the value, str the characters of a string (of the   *)
(* 'on' string of an object), list the items of an Array (of the 'on'      *)
(* Array of an object), on the type of an object's 'on' property.          *)
(***************************************************************************)
Config(kind, str, list, on, hasOnChangeDelay, onChangeDelay, delay) ==
  [kind |-> kind, str |-> str, list |-> list, on |-> on,
   hasOnChangeDelay |-> hasOnChangeDelay, onChangeDelay |-> onChangeDelay,
   delay |-> delay]

Plain(kind) == Config(kind, <<>>, <<>>, "none", FALSE, Unset, Unset)

StringConfig(str) == Config("string", str, <<>>, "none", FALSE, Unset, Unset)

ListConfig(list) == Config("list", <<>>, list, "none", FALSE, Unset, Unset)

\* util.js:139  !validation
Falsy(v) ==
  \/ v.kind \in {"undefined", "null", "false", "zero"}
  \/ v.kind = "string" /\ v.str = <<>>

AutoOnChangeDelay == 369

AutoPolicyKeepsChange == Policy(<<StrOnBlur, StrOnChange>>, TRUE, AutoOnChangeDelay)

\* util.js:143
AutoPolicy == Policy(<<StrOnBlur>>, TRUE, AutoOnChangeDelay)

ObjectDelayWhenSet(v) == IF v.onChangeDelay # Unset THEN v.onChangeDelay ELSE v.delay

\* util.js:159  object.get(validation, 'onChangeDelay', validation.delay)
ObjectDelay(v) == IF v.hasOnChangeDelay THEN v.onChangeDelay ELSE v.delay

NormaliseValidation(v) ==
  IF Falsy(v) \/ (v.kind = "string" /\ v.str = StrManual)
    THEN PassedThrough(v)
    ELSE IF v.kind = "string" /\ v.str = StrAuto
      THEN AutoPolicy
      ELSE IF v.kind = "string"
        THEN NormaliseValidationString(v.str)
        ELSE IF v.kind = "object"
          THEN IF v.on = "string"
                 THEN [NormaliseValidationString(v.str) EXCEPT !.onChangeDelay = ObjectDelay(v)]
                 ELSE IF v.on = "list"
                   THEN [NormaliseValidationEvents(v.list) EXCEPT !.onChangeDelay = ObjectDelay(v)]
                   ELSE Thrown("Validation config Objects must have an 'on' String or Array", "none")
          ELSE Thrown("Unexpected validation config: ", v.kind)

(***************************************************************************)
(* The configs tried.                                                      *)
(***************************************************************************)
\* event names as a caller writes them
Tokens ==
  { <<"b", "l", "u", "r">>,
    <<"c", "h", "a", "n", "g", "e">>,
    <<"C", "h", "a", "n", "g", "e">>,
    <<"o", "n", "c", "h", "a", "n", "g", "e">>,
    StrOnChange,
    StrOnBlur }

TokenLists == UNION {[1..n -> Tokens] : n \in 1..MaxTokens}

\* the items joined by sep, with pad before and after
RECURSIVE Joined(_, _)
Joined(list, sep) ==
  IF Len(list) = 1 THEN list[1] ELSE list[1] \o sep \o Joined(Tail(list), sep)

EventStrings ==
  {Joined(l, <<" ">>) : l \in TokenLists}
    \cup {<<" ">> \o Joined(l, <<" ", " ">>) \o <<" ">> : l \in TokenLists}

\* the items of a list may also be empty strings, and a list may be empty
EventLists == TokenLists \cup {<<>>, <<<<>>>>}

Delays == {Unset, 0, 500}

ObjectConfigs ==
  {Config("object", str, <<>>, "string", h, d1, d2) :
     str \in {Joined(l, <<" ">>) : l \in TokenLists}, h \in BOOLEAN, d1 \in {Unset, 200}, d2 \in Delays}
    \cup {Config("object", <<>>, l, "list", h, d1, d2) :
            l \in EventLists, h \in BOOLEAN, d1 \in {Unset, 200}, d2 \in Delays}
    \cup {Config("object", <<>>, <<>>, on, h, 200, 500) :
            on \in {"missing", "number", "object"}, h \in BOOLEAN}

Configs ==
  {Plain(k) : k \in {"undefined", "null", "false", "zero", "true", "number"}}
    \cup {StringConfig(str) : str \in {<<>>, <<" ">>, StrManual, StrAuto} \cup EventStrings}
    \cup {ListConfig(l) : l \in EventLists}
    \cup ObjectConfigs

NoResult == Thrown("not called", "none")

Normalise ==
  /\ nvPc = "ready"
  /\ normalised' = NormaliseValidation(validation)
  /\ nvPc' = "done"
  /\ UNCHANGED validation

NormaliseIdle(v) ==
  /\ validation = v
  /\ normalised = NoResult
  /\ nvPc = "ready"

(***************************************************************************)
(* normaliseValidation by reference.  Arrays and policy objects live in    *)
(* heap, a sequence of cells; the address of a cell is its index, and a    *)
(* new object is appended.  Strings are values: they cannot be changed.    *)
(***************************************************************************)
ArrayCell(items) ==
  [type |-> "array", items |-> items, events |-> 0, onChange |-> FALSE,
   onChangeDelay |-> Unset]

\* {events: <the Array at address events>, onChange: ..., onChangeDelay: ...}
ObjectCell(events, onChange, onChangeDelay) ==
  [type |-> "object", items |-> <<>>, events |-> events, onChange |-> onChange,
   onChangeDelay |-> onChangeDelay]

\* write cell at address a, which is a cell of h or the next new address
Store(h, a, cell) == IF a = Len(h) + 1 THEN Append(h, cell) ELSE [h EXCEPT ![a] = cell]

\* the policy at address p, read through its references
Deref(h, p) == Policy(h[h[p].events].items, h[p].onChange, h[p].onChangeDelay)

MappedInPlace(h, src) == src

\* util.js:117  events = events.map(...): map makes a new Array
MappedInto(h, src) == Len(h) + 1

\* normaliseValidationEvents (util.js:116-126) on the Array at address src
NormaliseValidationEventsOnHeap(h, src) ==
  LET mapped == MappedInto(h, src)
      h1 == Store(h, mapped,
                  ArrayCell([k \in 1..Len(h[src].items) |-> EventName(h[src].items[k])]))
      onChangeIndex == IndexOf(h1[mapped].items, StrOnChange)
      h2 == IF onChangeIndex # 0
              THEN [h1 EXCEPT ![mapped].items = Splice1(@, onChangeIndex)]
              ELSE h1
  IN [heap |-> Append(h2, ObjectCell(mapped, onChangeIndex # 0, Unset)),
      ret |-> Len(h2) + 1]

\* normaliseValidationString (util.js:131-133): split makes a new Array
NormaliseValidationStringOnHeap(h, str) ==
  NormaliseValidationEventsOnHeap(Append(h, ArrayCell(SplitSpaces(Strip(str)))), Len(h) + 1)

\* a caller's config: 'auto', a string of event names, or an object whose
\* 'on' is the Array at address on
CallerConfig(kind, str, on, delay) == [kind |-> kind, str |-> str, on |-> on, delay |-> delay]

\* normaliseValidation (util.js:138-163) for the configs that yield a policy
NormaliseValidationOnHeap(h, c) ==
  IF c.kind = "auto"
    THEN [heap |-> Append(Append(h, ArrayCell(AutoPolicy.events)),
                          ObjectCell(Len(h) + 1, AutoPolicy.onChange, AutoPolicy.onChangeDelay)),
          ret |-> Len(h) + 2]
    ELSE IF c.kind = "string"
      THEN NormaliseValidationStringOnHeap(h, c.str)
      ELSE LET r == NormaliseValidationEventsOnHeap(h, c.on)
               v == Config("object", <<>>, h[c.on].items, "list", FALSE, Unset, c.delay)
           IN [heap |-> [r.heap EXCEPT ![r.ret].onChangeDelay = ObjectDelay(v)],
               ret |-> r.ret]

\* the same config as a value, for NormaliseValidation
ConfigValue(c, items) ==
  IF c.kind = "auto"
    THEN StringConfig(StrAuto)
    ELSE IF c.kind = "string"
      THEN StringConfig(c.str)
      ELSE Config("object", <<>>, items, "list", FALSE, Unset, c.delay)

\* one call of normaliseValidation with the caller's config
NormaliseAgain ==
  LET r == NormaliseValidationOnHeap(heap, callerConfig) IN
  /\ Len(policies) < MaxCalls
  /\ heap' = r.heap
  /\ policies' = Append(policies, r.ret)
  /\ expected' = Append(expected, Deref(r.heap, r.ret))
  /\ UNCHANGED <<callerConfig, callerList, nChanges>>

StrOnFocus == <<"o", "n", "F", "o", "c", "u", "s">>

\* the caller changes the policy a call returned: adds an event name to its
\* events, flips its onChange, or sets its onChangeDelay
ChangePolicy(i, how) ==
  LET p == policies[i] IN
  /\ nChanges < MaxChanges
  /\ nChanges' = nChanges + 1
  /\ heap' = IF how = "events"
               THEN [heap EXCEPT ![heap[p].events].items = Append(@, StrOnFocus)]
               ELSE IF how = "onChange"
                 THEN [heap EXCEPT ![p].onChange = ~@]
                 ELSE [heap EXCEPT ![p].onChangeDelay = 1000]
  /\ expected' = IF how = "events"
                   THEN [expected EXCEPT ![i].events = Append(@, StrOnFocus)]
                   ELSE IF how = "onChange"
                     THEN [expected EXCEPT ![i].onChange = ~@]
                     ELSE [expected EXCEPT ![i].onChangeDelay = 1000]
  /\ UNCHANGED <<callerConfig, callerList, policies>>

CallerChanges ==
  \E i \in 1..Len(policies), how \in {"events", "onChange", "onChangeDelay"} :
    ChangePolicy(i, how)

\* the configs tried by reference: those that yield a policy
CallerConfigs ==
  {CallerConfig("auto", StrAuto, 0, Unset)}
    \cup {CallerConfig("string", str, 0, Unset) : str \in EventStrings}
    \cup {CallerConfig("object", <<>>, 1, d) : d \in {Unset, 500}}

HeapStart(c, items) ==
  /\ callerConfig = c
  /\ callerList = items
  /\ heap = IF c.kind = "object" THEN <<ArrayCell(items)>> ELSE <<>>
  /\ policies = <<>>
  /\ expected = <<>>
  /\ nChanges = 0

HeapIdle == HeapStart(CallerConfig("auto", StrAuto, 0, Unset), <<>>)

(***************************************************************************)
(* Specifications.                                                         *)
(***************************************************************************)
DebounceInit ==
  /\ \E w \in 1..MaxWait, imm \in BOOLEAN : DebounceFresh(w, imm)
  /\ CancellableInit
  /\ ValidateIdle(<<>>)
  /\ NormaliseIdle(Plain("undefined"))
  /\ HeapIdle

DebounceNext ==
  \/ CallDebounced /\ UNCHANGED <<canVars, valVars, nvVars, heapVars>>
  \/ TimerFires /\ UNCHANGED <<canVars, valVars, nvVars, heapVars>>
  \/ Cancel /\ UNCHANGED <<canVars, valVars, nvVars, heapVars>>
  \/ Trigger /\ UNCHANGED <<canVars, valVars, nvVars, heapVars>>
  \/ Tick /\ UNCHANGED <<canVars, valVars, nvVars, heapVars>>

SpecDebounce == DebounceInit /\ [][DebounceNext]_vars

CancellableOnlyInit ==
  /\ DebounceFresh(1, FALSE)
  /\ CancellableInit
  /\ ValidateIdle(<<>>)
  /\ NormaliseIdle(Plain("undefined"))
  /\ HeapIdle

CancellableNext ==
  \/ CallWrapper /\ UNCHANGED <<debVars, valVars, nvVars, heapVars>>
  \/ CancelWrapper /\ UNCHANGED <<debVars, valVars, nvVars, heapVars>>

WrappersOnlyInit ==
  /\ DebounceFresh(1, FALSE)
  /\ WrappersInit
  /\ ValidateIdle(<<>>)
  /\ NormaliseIdle(Plain("undefined"))
  /\ HeapIdle

SpecCancellable == WrappersOnlyInit /\ [][CancellableNext]_vars

AttemptsNext ==
  \/ StartAttempt /\ UNCHANGED <<debVars, valVars, nvVars, heapVars>>
  \/ AttemptCompletes /\ UNCHANGED <<debVars, valVars, nvVars, heapVars>>

SpecAttempts == CancellableOnlyInit /\ [][AttemptsNext]_vars

ValidateInit ==
  /\ DebounceFresh(1, FALSE)
  /\ CancellableInit
  /\ \E els \in FormShapes : ValidateIdle(els)
  /\ NormaliseIdle(Plain("undefined"))
  /\ HeapIdle

ValidateNext ==
  \/ CallValidateAll /\ UNCHANGED <<debVars, canVars, nvVars, heapVars>>
  \/ TargetRuns /\ UNCHANGED <<debVars, canVars, nvVars, heapVars>>
  \/ ValidateAllReturn /\ UNCHANGED <<debVars, canVars, nvVars, heapVars>>
  \/ WidgetChange /\ UNCHANGED <<debVars, canVars, nvVars, heapVars>>

SpecValidateAll == ValidateInit /\ [][ValidateNext]_vars

NormaliseInit ==
  /\ DebounceFresh(1, FALSE)
  /\ CancellableInit
  /\ ValidateIdle(<<>>)
  /\ \E v \in Configs : NormaliseIdle(v)
  /\ HeapIdle

NormaliseNext == Normalise /\ UNCHANGED <<debVars, canVars, valVars, heapVars>>

SpecNormalise == NormaliseInit /\ [][NormaliseNext]_vars

HeapInit ==
  /\ DebounceFresh(1, FALSE)
  /\ CancellableInit
  /\ ValidateIdle(<<>>)
  /\ NormaliseIdle(Plain("undefined"))
  /\ \E c \in CallerConfigs :
       \E items \in (IF c.kind = "object" THEN EventLists ELSE {<<>>}) : HeapStart(c, items)

HeapNext ==
  \/ NormaliseAgain /\ UNCHANGED <<debVars, canVars, valVars, nvVars>>
  \/ CallerChanges /\ UNCHANGED <<debVars, canVars, valVars, nvVars>>

SpecNormaliseHeap == HeapInit /\ [][HeapNext]_vars

(***************************************************************************)
(* Reading the log.                                                        *)
(***************************************************************************)
CallIdx == {i \in 1..Len(log) : log[i].kind = "call"}

FuncIdx == {i \in 1..Len(log) : log[i].kind = "func"}

\* the position of the next call of debounced after position k, or past the end
NextCall(k) ==
  IF \E i \in CallIdx : i > k
    THEN CHOOSE i \in CallIdx : i > k /\ \A m \in CallIdx : m > k => i <= m
    ELSE Len(log) + 1

\* the time at which the quiet period after the call at k ended, or now
QuietEnd(k) == IF NextCall(k) <= Len(log) THEN log[NextCall(k)].at ELSE now

\* the invocations of func between the call at k and the next call
FiredAfter(k) == {j \in FuncIdx : k < j /\ j < NextCall(k)}

\* trailing-edge use only: immediate unset, and neither cancel nor trigger called
Trailing ==
  /\ ~immediate
  /\ \A i \in 1..Len(log) : log[i].kind \in {"call", "func"}

\* C1: with immediate unset, calls that each arrive less than wait ms after
\* the previous one cause no invocation of func between them; once the calls
\* stop for more than wait ms func has been invoked exactly once, not before
\* wait ms have passed since the last call, and with the last call's context
\* and arguments.
C1_BurstFiresOnceWithLastArgs ==
  Trailing =>
    \A k \in CallIdx :
      /\ QuietEnd(k) - log[k].at < wait => FiredAfter(k) = {}
      /\ QuietEnd(k) - log[k].at > wait => Cardinality(FiredAfter(k)) = 1
      /\ Cardinality(FiredAfter(k)) <= 1
      /\ \A j \in FiredAfter(k) :
           /\ log[j].args = log[k].args
           /\ log[j].ctx = log[k].ctx
           /\ log[j].at >= log[k].at + wait

C1_Witness ==
  /\ Trailing
  /\ \E k \in CallIdx :
       /\ NextCall(k) <= Len(log)
       /\ QuietEnd(k) - log[k].at < wait
       /\ QuietEnd(k) > log[k].at
       /\ log[NextCall(k)].args # log[k].args
       /\ FiredAfter(NextCall(k)) # {}

\* the calls of debounced and the invocations of func, each in order
CallSeq == SelectSeq(log, LAMBDA e : e.kind = "call")

FuncSeq == SelectSeq(log, LAMBDA e : e.kind = "func")

SeparatedByMoreThanWait ==
  \A n \in 1..(Len(CallSeq) - 1) : CallSeq[n + 1].at - CallSeq[n].at > wait

\* C2: with immediate unset, when consecutive calls are more than wait ms
\* apart, the n-th call is answered by the n-th invocation of func, made with
\* that call's arguments before the next call arrives.
C2_SeparatedCallsFireOncePerCall ==
  (Trailing /\ SeparatedByMoreThanWait) =>
    /\ Len(FuncSeq) <= Len(CallSeq)
    /\ \A n \in 1..Len(CallSeq) :
         (n < Len(CallSeq) \/ now > CallSeq[n].at + wait) =>
           /\ Len(FuncSeq) >= n
           /\ FuncSeq[n].args = CallSeq[n].args
           /\ FuncSeq[n].ctx = CallSeq[n].ctx
           /\ FuncSeq[n].at >= CallSeq[n].at
           /\ n < Len(CallSeq) => FuncSeq[n].at < CallSeq[n + 1].at

C2_Witness ==
  /\ Trailing
  /\ SeparatedByMoreThanWait
  /\ Len(CallSeq) = 2
  /\ Len(FuncSeq) = 2
  /\ CallSeq[1].args # CallSeq[2].args

\* no invocation of func by the timer follows the event at position i unless
\* debounced was called again in between
NoTimerFireUntilNextCall(i) ==
  \A j \in FuncIdx :
    (j > i /\ log[j].by = "timer") => \E k \in CallIdx : i < k /\ k < j

\* C3: cancel() never invokes func and leaves no timer pending, so the timer
\* armed by the calls before it never invokes func for them; when no timer is
\* pending (also right after another cancel()) it changes nothing.
C3_CancelSuppressesPendingCall ==
  /\ [](\A i \in 1..Len(log) : log[i].kind = "cancel" => NoTimerFireUntilNextCall(i))
  /\ [][Cancel =>
          /\ timers' = {}
          /\ FuncIdx' = FuncIdx
          /\ timers = {} => UNCHANGED <<timeout, args, context, timestamp, result, timers>>]_vars

C3_Witness ==
  /\ \E i \in 1..Len(log) :
       /\ log[i].kind = "cancel"
       /\ log[i].pending
       /\ i < Len(log)
       /\ log[i + 1].kind = "cancel"
       /\ ~log[i + 1].pending
       /\ \A k \in CallIdx : k < i /\ now > log[k].at + wait

LastCallArgs == log[CHOOSE k \in CallIdx : \A m \in CallIdx : m <= k].args

\* C4: trigger() with a timer pending invokes func at once with the arguments
\* of the most recent call of debounced, returns what func returned, and
\* leaves no timer pending: the timer does not invoke func again for the burst.
C4_TriggerFiresNowAndCancelsTimer ==
  /\ [](\A i \in 1..Len(log) : log[i].kind = "trigger" => NoTimerFireUntilNextCall(i))
  /\ [][(Trigger /\ timers # {}) =>
          /\ timers' = {}
          /\ Len(log') = Len(log) + 2
          /\ log'[Len(log')].kind = "func"
          /\ log'[Len(log')].at = now
          /\ log'[Len(log')].args = LastCallArgs
          /\ returned' = FuncResult(LastCallArgs)]_vars

C4_Witness ==
  /\ \E i \in 1..Len(log) :
       /\ log[i].kind = "trigger"
       /\ log[i].pending
       /\ Cardinality(CallIdx) >= 2
       /\ \A k \in CallIdx : k < i /\ now > log[k].at + wait
       /\ log[i + 1].args = 2

\* C5: trigger() on a debounced function that was never called does not
\* invoke func: every invocation of func comes after some call of debounced.
C5_TriggerBeforeAnyCallIsNoop ==
  \A j \in FuncIdx : \E k \in CallIdx : k < j

(***************************************************************************)
(* Reading the log of the wrappers.                                        *)
(***************************************************************************)
\* cancel() of wrapper w was called before position p
CancelledBefore(p, w) ==
  \E q \in 1..(p - 1) : clog[q].kind = "cancel" /\ clog[q].w = w

\* the call at position p reached func, with the call's arguments
ReachedFunc(p) ==
  /\ p < Len(clog)
  /\ clog[p + 1].kind = "func"
  /\ clog[p + 1].w = clog[p].w
  /\ clog[p + 1].args = clog[p].args

CountOf(kind, w) ==
  Cardinality({p \in 1..Len(clog) : clog[p].kind = kind /\ clog[p].w = w})

\* C6: a call of a wrapper made before its cancel() reaches func with the
\* call's arguments; the cancelled flag, once true, stays true; a call made
\* after cancel() does not reach func and raises nothing, whatever its
\* arguments and whether func would have returned or thrown.
C6_CancelledWrapperIsInert ==
  /\ [](\A p \in 1..Len(clog) :
          clog[p].kind = "call" =>
            IF CancelledBefore(p, clog[p].w)
              THEN ~ReachedFunc(p) /\ ~clog[p].raised
              ELSE ReachedFunc(p))
  /\ [][\A w \in 1..Len(wrappers) : wrappers[w].cancelled => wrappers'[w].cancelled]_vars

C6_Witness ==
  \E p, q, r \in 1..Len(clog) :
    /\ p < q /\ q < r
    /\ clog[p].kind = "func" /\ clog[p].w = 1
    /\ clog[q].kind = "cancel" /\ clog[q].w = 1
    /\ clog[r].kind = "call" /\ clog[r].w = 1 /\ clog[r].args = 2
    /\ r = Len(clog)
    /\ wrappers[1].cancelled
    /\ wrappers[1].throws

\* C7: for a wrapper whose func has an onCancel hook, one or more calls of
\* cancel() invoke the hook exactly once in total.
C7_OnCancelInvokedOnce ==
  \A w \in 1..Len(wrappers) :
    wrappers[w].hasOnCancel =>
      CountOf("onCancel", w) = (IF CountOf("cancel", w) >= 1 THEN 1 ELSE 0)

\* C8: when every new attempt cancels the wrapper of the attempt before it,
\* the only wrapper whose call reaches its callback is the one made last:
\* a completion of a superseded attempt is dropped, also when it arrives
\* after the newer attempt's result was delivered.
C8_OnlyLatestAttemptTakesEffect ==
  \A p \in 1..Len(clog) : clog[p].kind = "func" => clog[p].w = clog[p].latest

C8_Witness ==
  \E p, q \in 1..Len(clog) :
    /\ p < q
    /\ clog[p].kind = "func" /\ clog[p].w = 2
    /\ clog[q].kind = "call" /\ clog[q].w = 1
    /\ ~ReachedFunc(q)

\* C9: a pass that returns has called setFormData on every target, in list
\* order, whatever the earlier targets returned, and returns true exactly
\* when every target returned a truthy value.
C9_EveryTargetRunsAndResultIsConjunction ==
  pc = "returned" =>
    /\ Len(setCalls) = nTargets
    /\ \A k \in 1..Len(setCalls) : setCalls[k].target = k
    /\ retval \in {"true", "false"}
    /\ retval = "true" <=> \A k \in 1..Len(setCalls) : Truthy(setCalls[k].ret)

C9_Witness ==
  /\ pc = "returned"
  /\ nTargets = 3
  /\ setCalls[1].ret = "one"
  /\ setCalls[2].ret = "zero"
  /\ setCalls[3].ret = "true"
  /\ retval = "false"

\* C10: a pass reads the form once, before any target runs, and every target
\* receives that snapshot: the data of the widgets as they were when the pass
\* began, also when a widget was changed before that target ran.
C10_OneSnapshotForAllTargets ==
  (pc # "idle" /\ form # "null") =>
    /\ data = FormData(snapElements)
    /\ \A k \in 1..Len(setCalls) : setCalls[k].data = FormData(snapElements)

C10_Witness ==
  /\ pc = "returned"
  /\ \E k \in 2..Len(setCalls) :
       /\ setCalls[k].live # setCalls[k].data
       /\ setCalls[k].live = FormData(elements)
       /\ setCalls[1].live = setCalls[1].data

\* C11: a pass over an empty list of targets with a usable form reads the
\* form, calls no target, raises nothing and returns true.
C11_EmptyPassReturnsTrue ==
  (pc # "idle" /\ form # "null" /\ nTargets = 0) =>
    /\ thrown = "none"
    /\ setCalls = <<>>
    /\ data = FormData(elements)
    /\ pc = "returned" => retval = "true"

C11_Witness ==
  /\ pc = "returned"
  /\ nTargets = 0
  /\ form = "dom"
  /\ data["a"].has
  /\ retval = "true"

\* C12: when a target's setFormData throws, validateAll ends with that
\* error and no return value; the thrower is the last target called, the
\* targets before it were called in order with the snapshot, and nothing
\* more happens to any target afterwards.
C12_TargetErrorAbortsThePass ==
  /\ [](thrown = "target" =>
          /\ pc = "threw"
          /\ retval = "none"
          /\ Len(setCalls) >= 1
          /\ Len(setCalls) <= nTargets
          /\ setCalls[Len(setCalls)].ret = "throws"
          /\ \A k \in 1..Len(setCalls) :
               /\ setCalls[k].target = k
               /\ setCalls[k].data = data
               /\ k < Len(setCalls) => setCalls[k].ret # "throws")
  /\ [][pc = "threw" => (pc' = "threw" /\ setCalls' = setCalls /\ retval' = retval)]_vars

C12_Witness ==
  /\ pc = "threw"
  /\ thrown = "target"
  /\ nTargets = 3
  /\ Len(setCalls) = 2
  /\ setCalls[1].ret = "zero"

\* C13: validateAll given no form fails with formData's error before any
\* target's setFormData is called, whatever the list of targets, and
\* returns nothing.
C13_MissingFormFailsBeforeTargets ==
  /\ [](pc # "idle" =>
          /\ form = "null" <=> thrown = "formData"
          /\ form = "null" =>
               /\ pc = "threw"
               /\ setCalls = <<>>
               /\ retval = "none")
  /\ [][\A n \in 0..MaxTargets :
          ValidateAllBegin("null", n) => (pc' = "threw" /\ thrown' = "formData")]_vars

C13_Witness ==
  /\ pc = "threw"
  /\ thrown = "formData"
  /\ form = "null"
  /\ nTargets = 3
  /\ setCalls = <<>>

(***************************************************************************)
(* Reading a call of normaliseValidation.                                  *)
(***************************************************************************)
\* the event names a config gives: the pieces of a string, the items of a list
InputTokens(v) ==
  IF v.kind = "string" \/ (v.kind = "object" /\ v.on = "string")
    THEN SplitSpaces(Strip(v.str))
    ELSE v.list

IsAuto(v) == v.kind = "string" /\ v.str = StrAuto

HasChange(list) == \E k \in 1..Len(list) : list[k] = StrOnChange

\* C14 as claimed: 'auto' yields no events, onChange enabled, a delay of 369.
C14_AutoHasNoEvents ==
  (nvPc = "done" /\ IsAuto(validation)) =>
    /\ normalised.kind = "policy"
    /\ normalised.events = <<>>
    /\ normalised.onChange
    /\ normalised.onChangeDelay = 369

\* C14, amended: 'auto' yields the one event 'onBlur' (and so no 'onChange'
\* among the events), onChange enabled, and an onChange delay of 369 ms.
C14_AutoIsBlurAndChange ==
  (nvPc = "done" /\ IsAuto(validation)) =>
    /\ normalised.kind = "policy"
    /\ normalised.events = <<StrOnBlur>>
    /\ ~HasChange(normalised.events)
    /\ normalised.onChange
    /\ normalised.onChangeDelay = 369

C14_Witness ==
  /\ nvPc = "done"
  /\ IsAuto(validation)
  /\ normalised.kind = "policy"

\* C15: for a string or a list of event names, the events of the policy never
\* hold 'onChange', and onChange is true exactly when some name given
\* normalises to 'onChange'.
C15_ChangeIsAFlagNotAnEvent ==
  (nvPc = "done" /\ normalised.kind = "policy" /\ ~IsAuto(validation)) =>
    /\ ~HasChange(normalised.events)
    /\ normalised.onChange <=>
         \E k \in 1..Len(InputTokens(validation)) :
           EventName(InputTokens(validation)[k]) = StrOnChange

\* the shapes normaliseValidation is documented to take
AcceptedShape(v) ==
  \/ v.kind \in {"undefined", "null", "string"}
  \/ v.kind = "object" /\ v.on \in {"string", "list"}

\* C16: every value that is not of an accepted shape makes normaliseValidation
\* throw: an object whose 'on' is neither a string nor a list, and any value
\* that is neither absent, a string nor an object, the error naming the value.
C16_OtherShapesAreRejected ==
  (nvPc = "done" /\ ~AcceptedShape(validation)) =>
    IF validation.kind = "object"
      THEN normalised.kind = "Validation config Objects must have an 'on' String or Array"
      ELSE /\ normalised.kind = "Unexpected validation config: "
           /\ normalised.value = validation.kind

\* C17: for an object with an 'on' string or list, the policy's onChangeDelay
\* is the object's own onChangeDelay if it has that property, else its delay,
\* else unset; events and onChange are those the names of 'on' give by
\* themselves.  {on: ['blur'], delay: 500} yields ['onBlur'], false, 500.
C17_ObjectDelayIsCopied ==
  (nvPc = "done" /\ validation.kind = "object" /\ validation.on \in {"string", "list"}) =>
    /\ normalised.kind = "policy"
    /\ normalised.onChangeDelay =
         (IF validation.hasOnChangeDelay THEN validation.onChangeDelay ELSE validation.delay)
    /\ normalised.events = NormaliseValidationEvents(InputTokens(validation)).events
    /\ normalised.onChange = NormaliseValidationEvents(InputTokens(validation)).onChange
    /\ (validation = Config("object", <<>>, <<<<"b", "l", "u", "r">>>>, "list", FALSE, Unset, 500)
          => normalised = Policy(<<StrOnBlur>>, FALSE, 500))

C17_Witness ==
  /\ nvPc = "done"
  /\ validation = Config("object", <<>>, <<<<"b", "l", "u", "r">>>>, "list", FALSE, Unset, 500)
  /\ normalised = Policy(<<StrOnBlur>>, FALSE, 500)

(***************************************************************************)
(* Reading the log: what follows cancel() and trigger(), and bursts.       *)
(***************************************************************************)
\* the call at k is the first call after a cancel() or trigger() that found a
\* timer pending
FirstCallAfterCancelled(k) ==
  \E i \in 1..(k - 1) :
    /\ log[i].kind \in {"cancel", "trigger"}
    /\ log[i].pending
    /\ \A m \in CallIdx : ~(i < m /\ m < k)

\* neither cancel() nor trigger() is called between the call at k and the
\* next call
UndisturbedAfter(k) ==
  \A i \in 1..Len(log) :
    (k < i /\ i < NextCall(k)) => log[i].kind \notin {"cancel", "trigger"}

\* C18: with immediate unset, the first call after a cancel() or trigger()
\* that found a timer pending arms a timer again, and func is invoked by that
\* timer once wait ms have passed without another call, with that call's
\* arguments, as for a new debounced function.
C18_CallAfterCancelArmsAgain ==
  ~immediate =>
    \A k \in CallIdx :
      (FirstCallAfterCancelled(k) /\ UndisturbedAfter(k)) =>
        /\ k = Len(log) => timers # {}
        /\ QuietEnd(k) - log[k].at > wait =>
             \E j \in FiredAfter(k) :
               /\ log[j].by = "timer"
               /\ log[j].args = log[k].args

\* the most recent call of debounced before position j
CallBefore(j) == CHOOSE k \in CallIdx : k < j /\ \A m \in CallIdx : m < j => m <= k

\* C19: whatever calls, timer fires, cancel() and trigger() have happened, at
\* most one timer is pending, and every invocation of func made once
\* debounced has been called uses the arguments of the most recent call.
C19_OneTimerAndLatestArgs ==
  /\ Cardinality(timers) <= 1
  /\ \A j \in FuncIdx :
       (\E k \in CallIdx : k < j) => log[j].args = log[CallBefore(j)].args

C19_Witness ==
  /\ Cardinality(timers) = 1
  /\ Cardinality(CallIdx) >= 2
  /\ \E j \in FuncIdx :
       /\ log[j].by \in {"timer", "trigger"}
       /\ \E k \in CallIdx : k < j
       /\ \E k \in CallIdx : k < CallBefore(j) /\ log[k].args # log[j].args

\* leading-edge use only: immediate set, and neither cancel nor trigger called
Leading ==
  /\ immediate
  /\ \A i \in 1..Len(log) : log[i].kind \in {"call", "func"}

\* the calls that open a burst: no timer was pending when they were made
BurstStarts == {k \in CallIdx : ~log[k].pending}

\* C20: with immediate set, a call made while no timer is pending invokes
\* func within the call, with the call's context and arguments; a call made
\* while the timer is pending, as is every call less than wait ms after the
\* previous one, invokes nothing; the timer never invokes func: there is
\* exactly one invocation per burst, made by its first call.
C20_LeadingEdgeFiresOncePerBurst ==
  Leading =>
    /\ \A k \in BurstStarts :
         /\ k < Len(log)
         /\ log[k + 1] = [log[k] EXCEPT !.kind = "func", !.by = "call"]
    /\ \A j \in FuncIdx : j - 1 \in BurstStarts
    /\ Cardinality(FuncIdx) = Cardinality(BurstStarts)
    /\ \A n \in 2..Len(CallSeq) :
         /\ CallSeq[n].at - CallSeq[n - 1].at < wait => CallSeq[n].pending
         /\ CallSeq[n].at - CallSeq[n - 1].at > wait => ~CallSeq[n].pending

C20_Witness ==
  /\ Leading
  /\ Len(CallSeq) = 3
  /\ ~CallSeq[1].pending
  /\ CallSeq[2].pending
  /\ CallSeq[2].at > CallSeq[1].at
  /\ ~CallSeq[3].pending
  /\ Len(FuncSeq) = 2
  /\ timers = {}

\* C21: for every string or list of event names that normaliseValidation
\* accepts, no event name occurs twice in the events of the policy, also
\* when the config repeats a name ('blur blur', 'change change').
C21_EventsAreDistinct ==
  (nvPc = "done" /\ normalised.kind = "policy") =>
    \A a, b \in 1..Len(normalised.events) :
      a # b => normalised.events[a] # normalised.events[b]

(***************************************************************************)
(* Reading the heap.                                                       *)
(***************************************************************************)
StrChange == <<"c", "h", "a", "n", "g", "e">>

\* C22: normaliseValidation leaves its input as it was, and the policy it
\* returns shares no object with the input or with another result: the
\* caller's 'on' Array keeps its items, every policy returned is a new object
\* with a new events Array and has the value normaliseValidation gives, and a
\* policy changes only by the caller's own changes to it, for 'auto' too.
C22_InputUntouchedAndNothingShared ==
  /\ callerConfig.kind = "object" => heap[callerConfig.on].items = callerList
  /\ \A i \in 1..Len(policies) :
       /\ Deref(heap, policies[i]) = expected[i]
       /\ heap[policies[i]].events # callerConfig.on
       /\ nChanges = 0 =>
            Deref(heap, policies[i]) = NormaliseValidation(ConfigValue(callerConfig, callerList))
       /\ \A j \in 1..Len(policies) :
            i # j => /\ policies[i] # policies[j]
                     /\ heap[policies[i]].events # heap[policies[j]].events

C22_Witness ==
  /\ callerConfig.kind = "object"
  /\ callerList = <<StrChange, <<"b", "l", "u", "r">>>>
  /\ heap[callerConfig.on].items = callerList
  /\ Len(policies) = 2
  /\ Deref(heap, policies[1]).events = <<StrOnBlur, StrOnFocus>>
  /\ Deref(heap, policies[2]).events = <<StrOnBlur>>
  /\ Deref(heap, policies[2]).onChange

====
